---------------------------- MODULE Spec2Model ----------------------------
(***************************************************************************)
(* A model of pr_agent.py: the script that resolves the pull request that  *)
(* triggered a workflow run, sends its diff to an Ollama endpoint and      *)
(* posts the parsed review as one comment on the pull request.             *)
(*                                                                         *)
(* Text is a sequence of one-character strings, so that split, strip,      *)
(* replace, int() and json.loads are computed character by character.  The *)
(* only multi-character units are the fixed pieces of the script's own     *)
(* f-string templates, which no operation of the script looks into.        *)
(*                                                                         *)
(* A Python value is a record [t |-> tag, v |-> payload] with tag one of   *)
(* "none", "bool", "int", "str", "list", "dict".                           *)
(***************************************************************************)
EXTENDS Integers, Sequences, FiniteSets, TLC

VARIABLES
    github_ref,           \* os.environ.get("GITHUB_REF"): None or a str
    event_file,           \* the file at GITHUB_EVENT_PATH: None (no path / no file) or its text
    endpoint,             \* what the inference endpoint answers to the one request
    pc,                   \* the statement of the script that runs next
    status,               \* "running", "exit0", "exit1" (exit(1)) or "traceback"
    exc,                  \* the unhandled exception that ended the run, or "none"
    calls,                \* the platform and endpoint calls made so far, in order
    out,                  \* the lines printed so far (their fixed prefixes)
    consulted,            \* whether the GITHUB_EVENT_PATH fallback was entered
    pr_number,            \* the module-level pr_number
    pr_title,             \* pr.title
    pr_files,             \* the files pr.get_files() yields
    diff_content,         \* the module-level diff_content
    FULL_PROMPT,          \* the module-level FULL_PROMPT
    review_result,        \* the module-level review_result
    security_risks_list,  \* the module-level security_risks_list
    suggestions_list,     \* the module-level suggestions_list
    comments              \* the bodies of the comments created on the pull request

vars == <<github_ref, event_file, endpoint, pc, status, exc, calls, out, consulted,
          pr_number, pr_title, pr_files, diff_content, FULL_PROMPT, review_result,
          security_risks_list, suggestions_list, comments>>

---------------------------------------------------------------------------
(* Bounds of the model.                                                    *)

\* the most segments a generated GITHUB_REF has
MaxSegs == 4
\* the most items a generated review list has
MaxItems == 1

---------------------------------------------------------------------------
(* Python values.                                                          *)

None == [t |-> "none", v |-> <<>>]
MkBool(b) == [t |-> "bool", v |-> b]
MkInt(n) == [t |-> "int", v |-> n]
MkStr(s) == [t |-> "str", v |-> s]
MkList(s) == [t |-> "list", v |-> s]
MkDict(f) == [t |-> "dict", v |-> f]
EmptyDict == MkDict(<<>>)

\* bool(x), as "if x" and "not x" compute it
Truthy(x) ==
    CASE x.t = "none" -> FALSE
      [] x.t = "bool" -> x.v
      [] x.t = "int" -> x.v # 0
      [] x.t = "str" -> x.v # <<>>
      [] x.t = "list" -> x.v # <<>>
      [] x.t = "dict" -> DOMAIN x.v # {}

\* isinstance(x, list)
IsList(x) == x.t = "list"

\* d.get(k, default) on a dict d
DictGet(d, k, default) == IF k \in DOMAIN d.v THEN d.v[k] ELSE default

\* whether x has a .get attribute: only dict has, among the values json.loads returns
HasGet(x) == x.t = "dict"

---------------------------------------------------------------------------
(* Characters and str methods.                                             *)

Digits == <<"0", "1", "2", "3", "4", "5", "6", "7", "8", "9">>
DigitSet == {Digits[i] : i \in 1..10}
DigitVal(c) == (CHOOSE i \in 1..10 : Digits[i] = c) - 1
Whitespace == {" ", "\n", "\t", "\r"}

\* the character at position i, or "" past the end
At(s, i) == IF i \in 1..Len(s) THEN s[i] ELSE ""

\* s[i:].startswith(p)
StartsWithAt(s, i, p) ==
    /\ i + Len(p) - 1 <= Len(s)
    /\ \A k \in 1..Len(p) : s[i + k - 1] = p[k]

\* s.startswith(p)
StartsWith(s, p) == StartsWithAt(s, 1, p)

RECURSIVE SplitFrom(_, _, _, _)
SplitFrom(s, i, sep, cur) ==
    IF i > Len(s) THEN <<cur>>
    ELSE IF s[i] = sep THEN <<cur>> \o SplitFrom(s, i + 1, sep, <<>>)
    ELSE SplitFrom(s, i + 1, sep, Append(cur, s[i]))

\* s.split(sep) for a one-character sep
Split(s, sep) == SplitFrom(s, 1, sep, <<>>)

RECURSIVE Join(_, _)
\* sep.join(parts)
Join(parts, sep) ==
    IF parts = <<>> THEN <<>>
    ELSE IF Len(parts) = 1 THEN parts[1]
    ELSE parts[1] \o sep \o Join(Tail(parts), sep)

RECURSIVE LStrip(_)
LStrip(s) == IF s # <<>> /\ Head(s) \in Whitespace THEN LStrip(Tail(s)) ELSE s

RECURSIVE RStrip(_)
RStrip(s) ==
    IF s # <<>> /\ s[Len(s)] \in Whitespace THEN RStrip(SubSeq(s, 1, Len(s) - 1)) ELSE s

\* s.strip()
Strip(s) == RStrip(LStrip(s))

RECURSIVE ReplaceFrom(_, _, _, _)
ReplaceFrom(s, i, old, new) ==
    IF i > Len(s) THEN <<>>
    ELSE IF StartsWithAt(s, i, old) THEN new \o ReplaceFrom(s, i + Len(old), old, new)
    ELSE <<s[i]>> \o ReplaceFrom(s, i + 1, old, new)

\* s.replace(old, new) for a non-empty old: every occurrence, leftmost first
Replace(s, old, new) == ReplaceFrom(s, 1, old, new)

RECURSIVE DigitsToInt(_)
DigitsToInt(s) ==
    IF s = <<>> THEN 0 ELSE 10 * DigitsToInt(SubSeq(s, 1, Len(s) - 1)) + DigitVal(s[Len(s)])

AllDigits(s) == s # <<>> /\ \A k \in 1..Len(s) : s[k] \in DigitSet

\* int(s) for a str s: [ok |-> FALSE] is ValueError.  An optional sign, then
\* decimal digits (leading zeros allowed).
PyInt(s) ==
    LET signed == s # <<>> /\ s[1] \in {"-", "+"}
        body == IF signed THEN Tail(s) ELSE s
    IN  IF AllDigits(body)
        THEN [ok |-> TRUE, val |-> IF signed /\ s[1] = "-" THEN 0 - DigitsToInt(body)
                                                                ELSE DigitsToInt(body)]
        ELSE [ok |-> FALSE, val |-> 0]

RECURSIVE NatToChars(_)
NatToChars(n) == IF n < 10 THEN <<Digits[n + 1]>> ELSE NatToChars(n \div 10) \o <<Digits[(n % 10) + 1]>>

\* str(n) for an int n
IntToChars(n) == IF n < 0 THEN <<"-">> \o NatToChars(0 - n) ELSE NatToChars(n)

\* str(x), as an f-string field renders x; the script's inputs here are
\* None, bool, int and str values
PyStr(x) ==
    CASE x.t = "str" -> x.v
      [] x.t = "none" -> <<"N", "o", "n", "e">>
      [] x.t = "int" -> IntToChars(x.v)
      [] x.t = "bool" -> IF x.v THEN <<"T", "r", "u", "e">> ELSE <<"F", "a", "l", "s", "e">>

---------------------------------------------------------------------------
(* json.loads and json.load, on the JSON the model's inputs use: objects,  *)
(* arrays, strings without escape sequences, integers, true, false, null,  *)
(* with whitespace between tokens.  A result [ok |-> FALSE] is the         *)
(* JSONDecodeError the library raises.                                     *)

Quote == "\""
Lit_true == <<"t", "r", "u", "e">>
Lit_false == <<"f", "a", "l", "s", "e">>
Lit_null == <<"n", "u", "l", "l">>

JsonFail == [ok |-> FALSE, val |-> None, pos |-> 0]
JsonOk(x, p) == [ok |-> TRUE, val |-> x, pos |-> p]

RECURSIVE SkipWs(_, _)
SkipWs(s, i) == IF At(s, i) \in Whitespace THEN SkipWs(s, i + 1) ELSE i

RECURSIVE ScanString(_, _)
\* the position of the quote that closes a string whose text starts at i; 0 if
\* the string is unterminated or holds a control character (or an escape)
ScanString(s, i) ==
    IF i > Len(s) THEN 0
    ELSE IF s[i] = Quote THEN i
    ELSE IF s[i] \in {"\n", "\t", "\r", "\\"} THEN 0
    ELSE ScanString(s, i + 1)

\* a string, s[i] being its opening quote
ParseString(s, i) ==
    LET j == ScanString(s, i + 1)
    IN  IF j = 0 THEN JsonFail ELSE JsonOk(MkStr(SubSeq(s, i + 1, j - 1)), j + 1)

RECURSIVE DigitsEnd(_, _)
DigitsEnd(s, i) == IF At(s, i) \in DigitSet THEN DigitsEnd(s, i + 1) ELSE i

\* an integer: -? (0 | [1-9][0-9]*)
ParseNumber(s, i) ==
    LET neg == At(s, i) = "-"
        b == IF neg THEN i + 1 ELSE i
        e == IF At(s, b) = "0" THEN b + 1 ELSE DigitsEnd(s, b)
        n == DigitsToInt(SubSeq(s, b, e - 1))
    IN  IF e = b THEN JsonFail ELSE JsonOk(MkInt(IF neg THEN 0 - n ELSE n), e)

RECURSIVE ParseValue(_, _)
RECURSIVE ParseElements(_, _, _)
RECURSIVE ParseMembers(_, _, _)

\* a value that starts at i (whitespace already skipped)
ParseValue(s, i) ==
    LET c == At(s, i)
    IN  CASE c = "{" ->
                LET j == SkipWs(s, i + 1)
                IN  IF At(s, j) = "}" THEN JsonOk(EmptyDict, j + 1)
                    ELSE ParseMembers(s, j, <<>>)
          [] c = "[" ->
                LET j == SkipWs(s, i + 1)
                IN  IF At(s, j) = "]" THEN JsonOk(MkList(<<>>), j + 1)
                    ELSE ParseElements(s, j, <<>>)
          [] c = Quote -> ParseString(s, i)
          [] c = "-" \/ c \in DigitSet -> ParseNumber(s, i)
          [] StartsWithAt(s, i, Lit_true) -> JsonOk(MkBool(TRUE), i + 4)
          [] StartsWithAt(s, i, Lit_false) -> JsonOk(MkBool(FALSE), i + 5)
          [] StartsWithAt(s, i, Lit_null) -> JsonOk(None, i + 4)
          [] OTHER -> JsonFail

\* the elements of an array from i on, acc being those already read
ParseElements(s, i, acc) ==
    LET r == ParseValue(s, i)
        j == SkipWs(s, r.pos)
    IN  IF ~r.ok THEN JsonFail
        ELSE IF At(s, j) = "," THEN ParseElements(s, SkipWs(s, j + 1), Append(acc, r.val))
        ELSE IF At(s, j) = "]" THEN JsonOk(MkList(Append(acc, r.val)), j + 1)
        ELSE JsonFail

\* the members of an object from i on, acc being those already read; a
\* repeated key keeps its last value
ParseMembers(s, i, acc) ==
    LET k == IF At(s, i) = Quote THEN ParseString(s, i) ELSE JsonFail
        j == SkipWs(s, k.pos)
        r == IF k.ok /\ At(s, j) = ":" THEN ParseValue(s, SkipWs(s, j + 1)) ELSE JsonFail
        e == SkipWs(s, r.pos)
        obj == (k.val.v :> r.val) @@ acc
    IN  IF ~r.ok THEN JsonFail
        ELSE IF At(s, e) = "," THEN ParseMembers(s, SkipWs(s, e + 1), obj)
        ELSE IF At(s, e) = "}" THEN JsonOk(MkDict(obj), e + 1)
        ELSE JsonFail

\* json.loads(s): one value and nothing but whitespace around it
Loads(s) ==
    LET r == ParseValue(s, SkipWs(s, 1))
    IN  IF r.ok /\ SkipWs(s, r.pos) = Len(s) + 1 THEN r ELSE JsonFail

---------------------------------------------------------------------------
(* The literals of the script.  Tick stands for the backquote character,   *)
(* which a TLA+ string cannot hold.                                        *)

Tick == "BACKQUOTE"
Slash == "/"
RefsPullPrefix == <<"r", "e", "f", "s", "/", "p", "u", "l", "l", "/">>
FenceJson == <<Tick, Tick, Tick, "j", "s", "o", "n">>
Fence == <<Tick, Tick, Tick>>
K_pull_request == <<"p", "u", "l", "l", "_", "r", "e", "q", "u", "e", "s", "t">>
K_number == <<"n", "u", "m", "b", "e", "r">>
K_response == <<"r", "e", "s", "p", "o", "n", "s", "e">>
K_summary == <<"s", "u", "m", "m", "a", "r", "y">>
K_security_risks == <<"s", "e", "c", "u", "r", "i", "t", "y", "_", "r", "i", "s", "k", "s">>
K_suggestions == <<"s", "u", "g", "g", "e", "s", "t", "i", "o", "n", "s">>
NA == <<"N", "/", "A">>
NoneFound == <<"N", "o", "n", "e", " ", "f", "o", "u", "n", "d", ".">>
NoSuggestions == <<"N", "o", " ", "s", "p", "e", "c", "i", "f", "i", "c", " ", "s", "u", "g", "g", "e", "s", "t", "i", "o", "n", "s", ".">>
OLLAMA_MODEL == MkStr(<<"l", "l", "a", "m", "a", "3">>)

MsgNoPR == "CRITICAL: Failed to retrieve PR number from both GITHUB_REF and event payload. Exiting."
MsgWarnPayload == "WARNING: Could not parse GITHUB_EVENT_PATH payload"
MsgRetrieved == "Successfully retrieved PR"
MsgLLMError == "CRITICAL LLM ERROR"
MsgSuccess == "SUCCESS: AI review comment posted to PR."
MsgFailure == "FAILURE: AI agent failed to generate and post a review."

---------------------------------------------------------------------------
(* 1. PR number retrieval.                                                 *)

\* the except branch: the GITHUB_EVENT_PATH fallback.  file is None when the
\* variable is unset or names no file.  warned: the inner except printed.
EventFallback(file) ==
    IF file = None THEN [pr_number |-> None, warned |-> FALSE]
    ELSE LET r == Loads(file.v)
             inner == DictGet(r.val, K_pull_request, EmptyDict)
         IN  IF ~r.ok \/ ~HasGet(r.val) \/ ~HasGet(inner)
             THEN [pr_number |-> None, warned |-> TRUE]
             ELSE [pr_number |-> DictGet(inner, K_number, None), warned |-> FALSE]

\* ResolvePR with the number taken from split('/')[1]
ResolvePR_WrongSegment(ref, file) ==
    IF Truthy(ref) /\ StartsWith(ref.v, RefsPullPrefix)
    THEN LET segs == Split(ref.v, Slash)
             n == IF Len(segs) >= 2 THEN PyInt(segs[2]) ELSE [ok |-> FALSE, val |-> 0]
         IN  IF n.ok
             THEN [pr_number |-> MkInt(n.val), consulted |-> FALSE, warned |-> FALSE]
             ELSE [consulted |-> TRUE] @@ EventFallback(file)
    ELSE [pr_number |-> None, consulted |-> FALSE, warned |-> FALSE]

\* the try statement: pr_number, whether the fallback ran, whether it warned
ResolvePR(ref, file) ==
    IF Truthy(ref) /\ StartsWith(ref.v, RefsPullPrefix)
    THEN LET segs == Split(ref.v, Slash)
             n == IF Len(segs) >= 3 THEN PyInt(segs[3]) ELSE [ok |-> FALSE, val |-> 0]
         IN  IF n.ok
             THEN [pr_number |-> MkInt(n.val), consulted |-> FALSE, warned |-> FALSE]
             ELSE [consulted |-> TRUE] @@ EventFallback(file)
    ELSE [pr_number |-> None, consulted |-> FALSE, warned |-> FALSE]

\* "if not pr_number": the run goes on to repo.get_pull
PRNumberAccepted(n) == Truthy(n)

---------------------------------------------------------------------------
(* 2. The prompt.                                                          *)

\* one element of the list comprehension that builds diff_content
FileEntry(f) ==
    <<"File: ">> \o PyStr(f.filename) \o <<"\nDiff:\n">> \o PyStr(f.patch) \o <<"\n---">>

DiffContent(files) ==
    Join([i \in 1..Len(files) |-> FileEntry(files[i])], <<"\n\n">>)

FullPrompt(title, diff) ==
    <<"PR Title: ">> \o PyStr(title)
        \o <<"\n--------------------------------------------------\nCODE DIFF TO REVIEW:\n">>
        \o diff \o <<"\n">>

---------------------------------------------------------------------------
(* run_ollama_agent.  An endpoint answer is                                *)
(*   [conn |-> requests.post returned, code |-> the HTTP status,           *)
(*    json |-> what response.json() gives: [ok |-> FALSE] when it raises]. *)

\* result_text.strip().replace(FenceJson, '').replace(Fence, '')
CleanResultText(text) == Replace(Replace(Strip(text), FenceJson, <<>>), Fence, <<>>)

\* response.raise_for_status() raises
HttpError(code) == 400 <= code /\ code < 600

\* AgentTry without response.raise_for_status()
AgentTry_NoStatusCheck(ep) ==
    LET rt == DictGet(ep.json.val, K_response, MkStr(<<>>))
        r == Loads(CleanResultText(rt.v))
    IN  IF ~ep.conn \/ ~ep.json.ok \/ ~HasGet(ep.json.val)
        THEN [raised |-> TRUE, val |-> None]
        ELSE IF rt.t # "str" \/ ~r.ok THEN [raised |-> TRUE, val |-> None]
        ELSE [raised |-> FALSE, val |-> r.val]

\* the body of the try: [raised |-> an exception was raised, val |-> the value returned]
AgentTry(ep) ==
    LET rt == DictGet(ep.json.val, K_response, MkStr(<<>>))
        r == Loads(CleanResultText(rt.v))
    IN  IF ~ep.conn \/ HttpError(ep.code) \/ ~ep.json.ok \/ ~HasGet(ep.json.val)
        THEN [raised |-> TRUE, val |-> None]
        ELSE IF rt.t # "str" \/ ~r.ok THEN [raised |-> TRUE, val |-> None]
        ELSE [raised |-> FALSE, val |-> r.val]

\* run_ollama_agent(): the except clause turns every exception into None
RunAgent(ep) ==
    LET a == AgentTry(ep)
    IN  [logged |-> a.raised, result |-> IF a.raised THEN None ELSE a.val]

---------------------------------------------------------------------------
(* 3. Formatting and posting.                                              *)

\* the defaulting of a list field
ListOrDefault(x, default) == IF ~IsList(x) \/ ~Truthy(x) THEN MkList(<<MkStr(default)>>) ELSE x

RECURSIVE ListItems(_)
\* ''.join of the <li> items of a list
ListItems(items) ==
    IF items = <<>> THEN <<>>
    ELSE <<"<li>">> \o PyStr(Head(items)) \o <<"</li>">> \o ListItems(Tail(items))

\* the f-string comment_body (the heading's emoji is left out)
CommentBody(result, risks, suggestions) ==
    <<"## AI Code Review Summary\n\n| Field | Details |\n| :--- | :--- |\n| **Summary** | ">>
        \o PyStr(DictGet(result, K_summary, MkStr(NA)))
        \o <<" |\n| **Security Risks** | <ul>">> \o ListItems(risks.v)
        \o <<"</ul> |\n| **Suggestions** | <ul>">> \o ListItems(suggestions.v)
        \o <<"</ul> |\n\n---\n*Review powered by ">> \o PyStr(OLLAMA_MODEL) \o <<"*">>

---------------------------------------------------------------------------
(* The inputs of a run: what the environment, the hosting platform and the *)
(* inference endpoint hold.  JSON texts are written out from values by     *)
(* Dumps (the layout of json.dumps), so that the script's parsing of them  *)
(* is a computation of its own.                                            *)

KeyOrder == <<K_pull_request, K_number, K_summary, K_security_risks, K_suggestions>>

RECURSIVE Dumps(_)
RECURSIVE DumpsAll(_)
\* the texts of a sequence of values, joined with ", "
DumpsAll(xs) ==
    IF xs = <<>> THEN <<>>
    ELSE IF Len(xs) = 1 THEN Dumps(xs[1])
    ELSE Dumps(xs[1]) \o <<",", " ">> \o DumpsAll(Tail(xs))

Dumps(x) ==
    CASE x.t = "none" -> Lit_null
      [] x.t = "bool" -> IF x.v THEN Lit_true ELSE Lit_false
      [] x.t = "int" -> IntToChars(x.v)
      [] x.t = "str" -> <<Quote>> \o x.v \o <<Quote>>
      [] x.t = "list" -> <<"[">> \o DumpsAll(x.v) \o <<"]">>
      [] x.t = "dict" ->
            LET keys == SelectSeq(KeyOrder, LAMBDA k : k \in DOMAIN x.v)
                member(k) == <<Quote>> \o k \o <<Quote, ":", " ">> \o Dumps(x.v[k])
            IN  <<"{">> \o Join([i \in 1..Len(keys) |-> member(keys[i])], <<",", " ">>) \o <<"}">>

\* a JSON text wrapped in a fenced code block
Fenced(text) == FenceJson \o <<"\n">> \o text \o <<"\n">> \o Fence

SeqsUpTo(S, n) == UNION {[1..k -> S] : k \in 0..n}

\* GITHUB_REF: unset, or segments joined with "/"
Segments == {<<"r", "e", "f", "s">>, <<"p", "u", "l", "l">>, <<"h", "e", "a", "d", "s">>, <<"4", "2">>, <<"0">>, <<"-", "5">>}
Refs == {None} \cup {MkStr(Join(segs, <<Slash>>)) : segs \in SeqsUpTo(Segments, MaxSegs)}
CoreRefs == {None,
             MkStr(<<"r", "e", "f", "s", "/", "p", "u", "l", "l", "/", "4", "2", "/", "m", "e", "r", "g", "e">>),
             MkStr(<<"r", "e", "f", "s", "/", "p", "u", "l", "l", "/", "h", "e", "a", "d", "s">>)}

\* the event payload file
PayloadOf(n) == MkStr(Dumps(MkDict(K_pull_request :> MkDict(K_number :> n))))
Payload7 == PayloadOf(MkInt(7))
Events == {None, Payload7, PayloadOf(MkStr(<<"7">>)), PayloadOf(MkInt(-3)),
           MkStr(Dumps(MkDict(K_pull_request :> MkInt(7)))),
           MkStr(Dumps(EmptyDict)),
           MkStr(<<"{">>)}
CoreEvents == {Payload7}

\* the pull request on the platform
Titles == {MkStr(<<"F", "i", "x">>)}
File_a == [filename |-> MkStr(<<"a", ".", "p", "y">>), patch |-> MkStr(<<"+", "x">>)]
File_b == [filename |-> MkStr(<<"b", ".", "p", "n", "g">>), patch |-> None]
FileLists == {<<>>, <<File_a>>, <<File_a, File_b>>}

\* the review documents a model may answer with
FencedWord == <<"a">> \o Fence \o <<"b">>
Summaries == {MkStr(<<"o", "k">>), MkStr(FencedWord), None}
Items == {MkStr(<<"x">>), MkStr(FenceJson)}
ItemLists == {MkList(xs) : xs \in SeqsUpTo(Items, MaxItems)}
FieldValues(k) ==
    IF k = K_summary THEN Summaries
    ELSE IF k = K_security_risks THEN ItemLists \cup {MkStr(<<"n", "o">>), None}
    ELSE ItemLists \cup {MkInt(1)}
ReviewKeys == {K_summary, K_security_risks, K_suggestions}
ReviewDicts ==
    {MkDict(f) : f \in UNION {{g \in [ks -> UNION {FieldValues(k) : k \in ReviewKeys}] :
                                  \A k \in ks : g[k] \in FieldValues(k)} :
                              ks \in SUBSET ReviewKeys}}
NonDicts == {MkList(<<>>), MkList(<<MkStr(<<"x">>)>>), MkStr(<<>>), MkStr(<<"s">>),
             MkInt(0), MkInt(1), MkBool(TRUE), MkBool(FALSE), None}
ReviewTexts ==
    {Dumps(x) : x \in ReviewDicts \cup NonDicts}
        \cup {Fenced(Dumps(x)) : x \in ReviewDicts \cup NonDicts}
        \cup {<<>>, <<"o", "o", "p", "s">>, <<"{">>, Fenced(<<"{">>)}

Answer(conn, code, ok, val) == [conn |-> conn, code |-> code, json |-> [ok |-> ok, val |-> val]]
Envelope(text) == Answer(TRUE, 200, TRUE, MkDict(K_response :> MkStr(text)))
GoodReview ==
    MkDict((K_summary :> MkStr(<<"o", "k">>)) @@ (K_security_risks :> MkList(<<>>))
               @@ (K_suggestions :> MkList(<<MkStr(<<"x">>)>>)))
FailedAnswers ==
    {Answer(FALSE, 0, FALSE, None),                       \* network error or timeout
     Answer(TRUE, 500, TRUE, MkDict(K_response :> MkStr(Dumps(GoodReview)))),
     Answer(TRUE, 404, FALSE, None),
     Answer(TRUE, 200, FALSE, None),                      \* the body is not JSON
     Answer(TRUE, 200, TRUE, MkList(<<>>)),              \* the body is no object
     Answer(TRUE, 200, TRUE, EmptyDict),                  \* no 'response' key
     Answer(TRUE, 200, TRUE, MkDict(K_response :> None)),
     Answer(TRUE, 200, TRUE, MkDict(K_response :> MkInt(1)))}
Answers == FailedAnswers \cup {Envelope(t) : t \in ReviewTexts}
CoreAnswers == {Answer(FALSE, 0, FALSE, None),
                Envelope(Dumps(GoodReview)),
                Envelope(Fenced(Dumps(MkList(<<MkStr(<<"x">>)>>))))}

---------------------------------------------------------------------------
(* The run.                                                                *)

InitWith(refs, events, answers) ==
    /\ github_ref \in refs
    /\ event_file \in events
    /\ endpoint \in answers
    /\ pc = "get_repo"
    /\ status = "running"
    /\ exc = "none"
    /\ calls = <<>>
    /\ out = <<>>
    /\ consulted = FALSE
    /\ pr_number = None
    /\ pr_title = None
    /\ pr_files = <<>>
    /\ diff_content = <<>>
    /\ FULL_PROMPT = <<>>
    /\ review_result = None
    /\ security_risks_list = None
    /\ suggestions_list = None
    /\ comments = <<>>

\* every GITHUB_REF and event payload, a few endpoint answers
Init == InitWith(Refs, Events, CoreAnswers)

\* every endpoint answer, a few GITHUB_REFs and event payloads
InitReview == InitWith(CoreRefs, CoreEvents, Answers)

envVars == <<github_ref, event_file, endpoint>>
resolverVars == <<consulted, pr_number>>
promptVars == <<pr_title, pr_files, diff_content, FULL_PROMPT>>
reviewVars == <<review_result, security_risks_list, suggestions_list, comments>>

\* an exception nothing catches: the traceback, and the interpreter exits
Uncaught(e) ==
    /\ status' = "traceback"
    /\ exc' = e
    /\ pc' = "end"

\* repo = g.get_repo(repo_name)
GetRepo ==
    /\ pc = "get_repo"
    /\ calls' = Append(calls, "get_repo")
    /\ \/ pc' = "resolve" /\ UNCHANGED <<status, exc>>
       \/ Uncaught("GithubException")
    /\ UNCHANGED <<envVars, out, resolverVars, promptVars, reviewVars>>

\* github_ref = ... ; the try statement; if not pr_number: exit(1)
ResolvePRNumber ==
    /\ pc = "resolve"
    /\ LET r == ResolvePR(github_ref, event_file)
           warning == IF r.warned THEN <<MsgWarnPayload>> ELSE <<>>
       IN  /\ pr_number' = r.pr_number
           /\ consulted' = r.consulted
           /\ IF PRNumberAccepted(r.pr_number)
              THEN /\ out' = out \o warning
                   /\ pc' = "get_pull"
                   /\ UNCHANGED status
              ELSE /\ out' = out \o warning \o <<MsgNoPR>>
                   /\ pc' = "end"
                   /\ status' = "exit1"
    /\ UNCHANGED <<envVars, exc, calls, promptVars, reviewVars>>

\* pr = repo.get_pull(pr_number): the platform holds pull requests numbered
\* 1, 2, ...; any other argument, or a failed request, raises
GetPull ==
    /\ pc = "get_pull"
    /\ calls' = Append(calls, "get_pull")
    /\ \/ /\ pr_number.t = "int" /\ pr_number.v >= 1
          /\ pr_title' \in Titles
          /\ out' = Append(out, MsgRetrieved)
          /\ pc' = "get_files"
          /\ UNCHANGED <<status, exc>>
       \/ /\ Uncaught("GithubException")
          /\ UNCHANGED <<pr_title, out>>
    /\ UNCHANGED <<envVars, resolverVars, pr_files, diff_content, FULL_PROMPT, reviewVars>>

\* pr_diff = pr.get_files(); diff_content = ...; FULL_PROMPT = ...
BuildPrompt ==
    /\ pc = "get_files"
    /\ calls' = Append(calls, "get_files")
    /\ \/ \E files \in FileLists :
            /\ pr_files' = files
            /\ diff_content' = DiffContent(files)
            /\ FULL_PROMPT' = FullPrompt(pr_title, DiffContent(files))
            /\ pc' = "run_agent"
            /\ UNCHANGED <<status, exc>>
       \/ /\ Uncaught("GithubException")
          /\ UNCHANGED <<pr_files, diff_content, FULL_PROMPT>>
    /\ UNCHANGED <<envVars, out, resolverVars, pr_title, reviewVars>>

\* review_result = run_ollama_agent()
RunOllamaAgent ==
    /\ pc = "run_agent"
    /\ calls' = Append(calls, "ollama_post")
    /\ LET r == RunAgent(endpoint)
       IN  /\ review_result' = r.result
           /\ out' = IF r.logged THEN Append(out, MsgLLMError) ELSE out
    /\ pc' = "post"
    /\ UNCHANGED <<envVars, status, exc, resolverVars, promptVars,
                   security_risks_list, suggestions_list, comments>>

\* "if review_result:" taken, and review_result has no .get
FormatCrash ==
    /\ pc = "post"
    /\ Truthy(review_result)
    /\ ~HasGet(review_result)
    /\ Uncaught("AttributeError")
    /\ UNCHANGED <<envVars, calls, out, resolverVars, promptVars, reviewVars>>

\* "if review_result:" taken: the lists, the body, pr.create_issue_comment
PostComment ==
    /\ pc = "post"
    /\ Truthy(review_result)
    /\ HasGet(review_result)
    /\ LET risks == ListOrDefault(DictGet(review_result, K_security_risks, None), NoneFound)
           suggestions == ListOrDefault(DictGet(review_result, K_suggestions, None), NoSuggestions)
       IN  /\ security_risks_list' = risks
           /\ suggestions_list' = suggestions
           /\ calls' = Append(calls, "create_issue_comment")
           /\ \/ /\ comments' = Append(comments, CommentBody(review_result, risks, suggestions))
                 /\ out' = Append(out, MsgSuccess)
                 /\ status' = "exit0"
                 /\ pc' = "end"
                 /\ UNCHANGED exc
              \/ /\ Uncaught("GithubException")
                 /\ UNCHANGED <<comments, out>>
    /\ UNCHANGED <<envVars, resolverVars, promptVars, review_result>>

\* ReportFailure with a comment posted from the else branch too
ReportFailure_Posts ==
    /\ pc = "post"
    /\ ~Truthy(review_result)
    /\ calls' = Append(calls, "create_issue_comment")
    /\ comments' = Append(comments, <<MsgFailure>>)
    /\ out' = Append(out, MsgFailure)
    /\ status' = "exit0"
    /\ pc' = "end"
    /\ UNCHANGED <<envVars, exc, resolverVars, promptVars,
                   review_result, security_risks_list, suggestions_list>>

\* the else branch
ReportFailure ==
    /\ pc = "post"
    /\ ~Truthy(review_result)
    /\ out' = Append(out, MsgFailure)
    /\ status' = "exit0"
    /\ pc' = "end"
    /\ UNCHANGED <<envVars, exc, calls, resolverVars, promptVars, reviewVars>>

Next ==
    \/ GetRepo
    \/ ResolvePRNumber
    \/ GetPull
    \/ BuildPrompt
    \/ RunOllamaAgent
    \/ FormatCrash
    \/ PostComment
    \/ ReportFailure

Spec == Init /\ [][Next]_vars

SpecReview == InitReview /\ [][Next]_vars

---------------------------------------------------------------------------
(* Properties.                                                             *)

Has(seq, x) == \E i \in 1..Len(seq) : seq[i] = x
Count(seq, x) == Cardinality({i \in 1..Len(seq) : seq[i] = x})
Last(seq) == seq[Len(seq)]
Finished == pc = "end"
\* the try statement and the "if not pr_number" after it have run
ResolverRan == pc = "get_pull" \/ Has(calls, "get_pull") \/ Has(out, MsgNoPR)
AgentRan == Has(calls, "ollama_post")
ExitCode == IF status = "exit0" THEN 0 ELSE 1

\* the run ended in one of the failure states: no PR number, or no review
FailedRun == Finished /\ (Has(out, MsgNoPR) \/ Has(out, MsgFailure))

\* C1: in every run at most one comment is created on the pull request,
\* create_issue_comment is invoked at most once, and a run that ends in a
\* failure state (no PR number, inference error, parse error) creates none.
C1_AtMostOneComment ==
    /\ Len(comments) <= 1
    /\ Count(calls, "create_issue_comment") <= 1
    /\ FailedRun => comments = <<>> /\ ~Has(calls, "create_issue_comment")
    /\ Has(out, MsgLLMError) => comments = <<>>

\* a successful run has created its one comment
C1_Witness == Finished /\ status = "exit0" /\ Len(comments) = 1 /\ Last(out) = MsgSuccess

\* the response text of an answer that got as far as having one
HasResponseText(ep) ==
    /\ ep.conn /\ ~HttpError(ep.code) /\ ep.json.ok /\ ep.json.val.t = "dict"
    /\ K_response \in DOMAIN ep.json.val.v
    /\ ep.json.val.v[K_response].t = "str"
ResponseText(ep) == ep.json.val.v[K_response].v

\* the four failures of the inference call: no connection or a timeout, a
\* non-success status, a body that is not JSON, a response text that is not
\* JSON once its fence markers are removed
InferenceFailed(ep) ==
    \/ ~ep.conn
    \/ ep.code >= 400
    \/ ~ep.json.ok
    \/ HasResponseText(ep) /\ ~Loads(CleanResultText(ResponseText(ep))).ok

\* C2: when the inference call fails, run_ollama_agent catches and logs the
\* failure and returns None, the request is made once, no comment is posted,
\* no exception escapes, and the run ends with the failure message and exit
\* code 0.
C2_InferenceFailureIsSoft ==
    (AgentRan /\ InferenceFailed(endpoint)) =>
        /\ review_result = None
        /\ Has(out, MsgLLMError)
        /\ Count(calls, "ollama_post") = 1
        /\ comments = <<>>
        /\ ~Has(calls, "create_issue_comment")
        /\ status # "traceback" /\ exc = "none"
        /\ Finished => Last(out) = MsgFailure /\ status = "exit0" /\ ExitCode = 0

\* a run whose inference answer was HTTP 500 has ended
C2_Witness == Finished /\ AgentRan /\ endpoint.conn /\ endpoint.code = 500

\* C3: when no PR number is resolved, the run makes no network call at any
\* point, posts no comment and exits with code 1.
C3_NoNetworkBeforeAbort ==
    (Finished /\ Has(out, MsgNoPR)) =>
        calls = <<>> /\ comments = <<>> /\ status = "exit1" /\ ExitCode = 1

\* the positions of a "pull" segment followed by a decimal number
PullAt(segs) == {i \in 1..(Len(segs) - 1) : segs[i] = <<"p", "u", "l", "l">> /\ AllDigits(segs[i + 1])}
RefSegs == Split(github_ref.v, Slash)

\* the reference is absent or has no .../pull/<N>/... in it
NotPullShaped == github_ref = None \/ PullAt(RefSegs) = {}

\* C4: a reference that is not of the shape .../pull/<N>/..., with an event
\* payload {"pull_request": {"number": 7}}, resolves to PR number 7 and the
\* run goes on to fetch that pull request.
C4_FallbackForAnyOtherRef ==
    (ResolverRan /\ NotPullShaped /\ event_file = Payload7) =>
        pr_number = MkInt(7) /\ status # "exit1" /\ Has(out, MsgNoPR) = FALSE

\* the reference is <before>/pull/<N>/<after>, N a decimal integer >= 1
InnerPullAt(segs) ==
    {i \in PullAt(segs) : i >= 2 /\ i + 2 <= Len(segs) /\ DigitsToInt(segs[i + 1]) >= 1}
FirstOf(S) == CHOOSE i \in S : \A j \in S : i <= j

\* C5, as stated: any reference .../pull/<N>/..., whatever stands before
\* "pull" and after <N>, resolves to N without the fallback payload.
C5_AnyPullRef ==
    (ResolverRan /\ github_ref # None /\ InnerPullAt(RefSegs) # {}) =>
        /\ pr_number = MkInt(DigitsToInt(RefSegs[FirstOf(InnerPullAt(RefSegs)) + 1]))
        /\ ~consulted

\* the reference is refs/pull/<N> or refs/pull/<N>/<anything>, N >= 1
RefsPullRef ==
    /\ github_ref # None
    /\ Len(RefSegs) >= 3
    /\ RefSegs[1] = <<"r", "e", "f", "s">>
    /\ 2 \in PullAt(RefSegs)
    /\ DigitsToInt(RefSegs[3]) >= 1

\* C5, amended: a reference that starts with refs/pull/<N>, N a decimal
\* integer >= 1, resolves to N whatever follows <N>, without the fallback
\* payload being consulted.
C5_RefsPullRef ==
    (ResolverRan /\ RefsPullRef) =>
        /\ pr_number = MkInt(DigitsToInt(RefSegs[3]))
        /\ ~consulted
        /\ status # "exit1"

\* refs/pull/42/<something> was resolved although an event payload was there
C5_Witness ==
    /\ ResolverRan /\ RefsPullRef /\ Len(RefSegs) = 4 /\ event_file = Payload7
    /\ pr_number = MkInt(42)

\* C6: whenever repo.get_pull is called, pr_number is an integer >= 1.
C6_ValidatedNumber ==
    (pc = "get_pull" \/ Has(calls, "get_pull")) => (pr_number.t = "int" /\ pr_number.v >= 1)

\* a list field that is absent, not a list, or an empty list
Malformed(doc, k) == k \notin DOMAIN doc.v \/ doc.v[k].t # "list" \/ doc.v[k].v = <<>>
DefaultBody == CommentBody(EmptyDict, MkList(<<MkStr(NoneFound)>>), MkList(<<MkStr(NoSuggestions)>>))

\* C7: when the response text is a JSON object whose list fields are absent,
\* not lists or empty, the run posts exactly one comment with the
\* placeholder items, and with "N/A" for an absent summary (here: provided
\* the platform accepts the comment).
C7_DefaultsNeverFatal ==
    (/\ Finished /\ AgentRan /\ exc # "GithubException"
     /\ HasResponseText(endpoint)
     /\ Loads(ResponseText(endpoint)).ok
     /\ Loads(ResponseText(endpoint)).val.t = "dict"
     /\ Malformed(Loads(ResponseText(endpoint)).val, K_security_risks)
     /\ Malformed(Loads(ResponseText(endpoint)).val, K_suggestions)) =>
        /\ Len(comments) = 1
        /\ security_risks_list = MkList(<<MkStr(NoneFound)>>)
        /\ suggestions_list = MkList(<<MkStr(NoSuggestions)>>)
        /\ K_summary \notin DOMAIN Loads(ResponseText(endpoint)).val.v => comments[1] = DefaultBody

\* the files with every absent patch made the empty string
PatchesAsText(files) ==
    [i \in 1..Len(files) |->
        IF files[i].patch = None THEN [files[i] EXCEPT !.patch = MkStr(<<>>)] ELSE files[i]]

\* C8: the prompt text of a file without a patch is that of the same file
\* with the patch "".
C8_AbsentPatchIsEmpty ==
    pc \in {"run_agent", "post", "end"} /\ Has(calls, "get_files") /\ FULL_PROMPT # <<>> =>
        diff_content = DiffContent(PatchesAsText(pr_files))

\* the text is a fenced code block around a JSON document
FenceOpen == FenceJson \o <<"\n">>
FenceClose == <<"\n">> \o Fence
IsFencedText(t) ==
    /\ Len(t) >= Len(FenceOpen) + Len(FenceClose)
    /\ StartsWith(t, FenceOpen)
    /\ StartsWithAt(t, Len(t) - Len(FenceClose) + 1, FenceClose)
InsideFence(t) == SubSeq(t, Len(FenceOpen) + 1, Len(t) - Len(FenceClose))

\* C9: a fenced JSON document parses to the value of the document itself,
\* also when a string inside the document holds a fence marker.
C9_FencedEqualsDocument ==
    (/\ AgentRan /\ HasResponseText(endpoint)
     /\ IsFencedText(ResponseText(endpoint))
     /\ Loads(InsideFence(ResponseText(endpoint))).ok) =>
        review_result = Loads(InsideFence(ResponseText(endpoint))).val

\* C10: when the response text is JSON but not an object (a non-empty list or
\* string, a non-zero number, true), the run ends with a comment or with
\* the failure message, not with an unhandled exception.
C10_NonObjectIsHandled ==
    (/\ Finished /\ AgentRan /\ HasResponseText(endpoint)
     /\ Loads(ResponseText(endpoint)).ok
     /\ Loads(ResponseText(endpoint)).val.t # "dict"
     /\ Truthy(Loads(ResponseText(endpoint)).val)) =>
        /\ status = "exit0" /\ exc = "none"
        /\ Len(comments) = 1 \/ Last(out) = MsgFailure

=============================================================================
